---- MODULE Spec2Model ----
(***************************************************************************)
(* State-machine model of esbonio's SphinxLanguageServer                   *)
(* (lib/esbonio/esbonio/lsp/sphinx.py): project-model lifecycle            *)
(* (initialize / save / build), the Sphinx log handler that turns log      *)
(* records into diagnostics, and the role / directive index caches.        *)
(*                                                                         *)
(* Strings are modelled as sequences of tokens, so that concatenation,     *)
(* endswith() and equality of paths and keys are computed, not assumed.    *)
(***************************************************************************)
EXTENDS Integers, Sequences, FiniteSets, TLC

VARIABLES
    fs,                  \* environment: state of <root>/docs/conf.py on disk
    onceImpl,            \* environment: which OnceFilter the import produced
    initialized,         \* initialize() has run (workspace, user_config exist)
    user_config,         \* InitializationOptions given to initialize()
    app,                 \* self.app: None or the Sphinx application
    sphinx_log,          \* self.sphinx_log: Unset or the SphinxLogHandler
    _diagnostics,        \* server-side stored diagnostics, uri -> list
    published,           \* diagnostics last published to the client, per uri
    _roles,              \* cache of get_roles()
    _directives,         \* cache of get_directives()
    _role_target_types,  \* cache of get_role_target_types()
    _role_targets,       \* cache of _index_role_targets()
    last,                \* what the most recent operation did (observation)
    loop                 \* event loop: notifications queued and in flight

vars == << fs, onceImpl, initialized, user_config, app, sphinx_log,
           _diagnostics, published, _roles, _directives,
           _role_target_types, _role_targets, last, loop >>

----------------------------------------------------------------------------
(* Bounds *)

\* longest sequence of log records the engine emits in one build
MaxRecords == 2

----------------------------------------------------------------------------
(* Python values *)

None == [type |-> "None", v |-> << >>]

\* self.app = None
NoApp == [type |-> "None", confdir |-> << >>, version |-> "",
          logs |-> FALSE, _warncount |-> 0]
PyStr(s) == [type |-> "str", v |-> s]
PyPath(s) == [type |-> "Path", v |-> s]

\* self.sphinx_log before any assignment: the attribute does not exist
Unset == [set |-> FALSE, translator |-> FALSE, diagnostics |-> << >>,
          messages |-> {}]

EmptyDict == << >>

\* d[k] = v on a dict modelled as a function with a finite domain
DictSet(d, k, v) == [x \in (DOMAIN d) \cup {k} |-> IF x = k THEN v ELSE d[x]]

\* d.get(k, default)
DictGet(d, k, default) == IF k \in DOMAIN d THEN d[k] ELSE default

Last(s) == s[Len(s)]

----------------------------------------------------------------------------
(* Paths and uris: token sequences *)

Root == << "/ws" >>
DocsDir == << "/ws", "/docs" >>
ToxDir == << "/ws", "/.tox" >>
ElseDir == << "/else" >>

\* pathlib: dir / "conf.py"
ConfPyOf(dir) == dir \o << "/", "conf.py" >>

IndexRst == DocsDir \o << "/", "index.rst" >>
MyConfPy == DocsDir \o << "/", "my", "conf.py" >>

\* pygls.uris.from_fs_path / to_fs_path
from_fs_path(path) == << "file://" >> \o path
to_fs_path(u) == IF Len(u) > 0 /\ u[1] = "file://" THEN Tail(u) ELSE u

\* str.endswith("conf.py")
EndsWithConfPy(path) == Len(path) > 0 /\ Last(path) = "conf.py"

\* documents the client can save
SavedDocs == { from_fs_path(p) :
               p \in { IndexRst, MyConfPy, ConfPyOf(DocsDir),
                       ConfPyOf(ElseDir) } }

----------------------------------------------------------------------------
(* Configuration *)

\* accepted forms of the confDir option
ConfDirOptions ==
    { None,
      PyStr(DocsDir),
      PyStr(<< "${workspaceRoot}", "/docs" >>) }

SphinxConfig(cd) == [cls |-> "SphinxConfig", conf_dir |-> cd]
SphinxServerConfig(hide) ==
    [cls |-> "SphinxServerConfig", hide_sphinx_output |-> hide]
InitializationOptions(cd, hide) ==
    [cls |-> "InitializationOptions",
     sphinx |-> SphinxConfig(cd),
     server |-> SphinxServerConfig(hide)]

AllOptions ==
    { InitializationOptions(cd, hide) : cd \in ConfDirOptions, hide \in BOOLEAN }

\* contents the config file can have on disk: missing, present but
\* rejected by Sphinx, or one of two valid project definitions
FsStates == { "absent", "broken", "v1", "v2" }
Versions == { "v1", "v2", "v3" }

\* PATH_VAR_PATTERN.match(conf_dir), group(1): the placeholder name or ""
PathVar(s) ==
    IF Len(s) > 0 /\ s[1] = "${workspaceRoot}" THEN "workspaceRoot"
    ELSE IF Len(s) > 0 /\ s[1] = "${confDir}" THEN "confDir"
    ELSE ""

expand_conf_dir(root_dir, conf_dir) ==
    IF PathVar(conf_dir) # "workspaceRoot"
    THEN PyStr(conf_dir)
    ELSE PyPath(root_dir \o Tail(conf_dir))

\* root.glob("**/conf.py") in discovery order
GlobConfPy(disk) ==
    << ConfPyOf(ToxDir) >> \o
    (IF disk = "absent" THEN << >> ELSE << ConfPyOf(DocsDir) >>)

ignore_paths == { "/.tox", "/site-packages" }

Ignored(candidate) == \E i \in 1..Len(candidate) : candidate[i] \in ignore_paths

\* candidate.parent for a path ending in /conf.py
Parent(path) == SubSeq(path, 1, Len(path) - 2)

RECURSIVE FirstCandidate(_)
FirstCandidate(cands) ==
    IF cands = << >> THEN None
    ELSE IF Ignored(Head(cands)) THEN FirstCandidate(Tail(cands))
    ELSE PyPath(Parent(Head(cands)))

\* The result is [raised, value]: config.conf_dir raises AttributeError on an
\* object that has no such attribute.
find_conf_dir(root_uri, config, disk) ==
    IF "conf_dir" \notin DOMAIN config
    THEN [raised |-> "AttributeError", value |-> None]
    ELSE IF config.conf_dir # None
    THEN [raised |-> "none",
          value |-> expand_conf_dir(to_fs_path(root_uri), config.conf_dir.v)]
    ELSE [raised |-> "none", value |-> FirstCandidate(GlobConfPy(disk))]

root_uri == from_fs_path(Root)

\* Sphinx(confdir=...) reads <confdir>/conf.py
DiskAt(dir, disk) == IF dir = DocsDir THEN disk ELSE "absent"

\* Result: [outcome, app, handler]; outcome is "ok", "MissingConfigError"
\* or "Exception".  handler is TRUE when a new SphinxLogHandler is created
\* and attached.
create_sphinx_app(options, disk) ==
    LET found == find_conf_dir(root_uri, options.sphinx, disk)
    IN  IF found.raised # "none"
        THEN [outcome |-> "Exception", app |-> NoApp, handler |-> FALSE]
        ELSE IF found.value = None
        THEN [outcome |-> "MissingConfigError", app |-> NoApp, handler |-> FALSE]
        ELSE IF DiskAt(found.value.v, disk) \notin Versions
        THEN [outcome |-> "Exception", app |-> NoApp, handler |-> FALSE]
        ELSE [outcome |-> "ok",
              app |-> [type |-> "Sphinx",
                       confdir |-> found.value.v,
                       version |-> DiskAt(found.value.v, disk),
                       logs |-> ~options.server.hide_sphinx_output,
                       _warncount |-> 0],
              handler |-> ~options.server.hide_sphinx_output]

----------------------------------------------------------------------------
(* Log records and the log handler *)

WARNING == 30
ERROR == 40

StrKey(s) == [type |-> "str", s |-> s, n |-> 0]
IntKey(n) == [type |-> "int", s |-> "", n |-> n]

DIAGNOSTIC_SEVERITY ==
    [k \in { StrKey("WARNING"), StrKey("ERROR") } |->
        IF k = StrKey("WARNING") THEN "Warning" ELSE "Error"]

Msgs == { << "undefined label" >> }

SphinxLoggerName == << "sphinx", ".", "builders" >>

Record(levelno, msg, location, once) ==
    [name |-> SphinxLoggerName, levelno |-> levelno, msg |-> msg,
     location |-> location, once |-> once]

\* location strings "path[:line]" the engine's translator produces
Locations ==
    { IndexRst \o << ":", "3" >>,
      MyConfPy }

\* log records the engine emits at warning level or above: a warning
\* flagged once=True, and an error
EngineRecords ==
    { Record(WARNING, m, IndexRst \o << ":", "3" >>, TRUE) : m \in Msgs }
    \cup { Record(ERROR, m, MyConfPy, FALSE) : m \in Msgs }

RECURSIVE SeqsUpTo(_, _)
SeqsUpTo(S, n) ==
    IF n = 0 THEN { << >> }
    ELSE LET shorter == SeqsUpTo(S, n - 1)
         IN  shorter \cup { Append(s, x) : s \in shorter, x \in S }

\* one run of the engine's build step: the records it logs, and whether
\* the step ends by raising
EngineRuns ==
    { [recs |-> r, raises |-> b] :
      r \in SeqsUpTo(EngineRecords, MaxRecords), b \in BOOLEAN }

QuietRuns == { [recs |-> << >>, raises |-> FALSE] }

\* runs that tell the lifecycle cases apart: quiet or one warning, ending
\* normally or by raising
LifeRuns ==
    { [recs |-> r, raises |-> b] :
      r \in { << >>, << Record(WARNING, << "undefined label" >>,
                               IndexRst \o << ":", "3" >>, FALSE) >> },
      b \in BOOLEAN }

\* str.split(":") on a token string
RECURSIVE Split(_, _, _)
Split(s, cur, acc) ==
    IF s = << >> THEN Append(acc, cur)
    ELSE IF Head(s) = ":" THEN Split(Tail(s), << >>, Append(acc, cur))
    ELSE Split(Tail(s), Append(cur, Head(s)), acc)

IntValue == [t \in { "1", "3", "42" } |->
                IF t = "1" THEN 1 ELSE IF t = "3" THEN 3 ELSE 42]

\* int(s): [ok, value]; ValueError when s is not a numeral
ParseInt(seg) ==
    IF Len(seg) = 1 /\ seg[1] \in DOMAIN IntValue
    THEN [ok |-> TRUE, value |-> IntValue[seg[1]]]
    ELSE [ok |-> FALSE, value |-> 0]

\* pygls.IS_WIN: the server runs on a POSIX platform
IS_WIN == FALSE

\* record.location is None
NoLocation == << "<None>" >>

\* SphinxLogHandler.get_location on a platform: [raised, uri, lineno],
\* lineno 0 stands for None.  None has no split(); on the drive-letter
\* platform parts.pop(0) raises IndexError when nothing follows the path.
get_location_on(is_win, location) ==
    IF location = NoLocation
    THEN [raised |-> "AttributeError", uri |-> << >>, lineno |-> 0]
    ELSE LET segs == Split(location, << >>, << >>)
         IN  IF is_win /\ Len(segs) = 1
             THEN [raised |-> "IndexError", uri |-> << >>, lineno |-> 0]
             ELSE LET path == IF is_win
                              THEN Head(segs) \o << ":" >> \o Head(Tail(segs))
                              ELSE Head(segs)
                      parts == IF is_win THEN Tail(Tail(segs)) ELSE Tail(segs)
                      lineno == IF Len(parts) = 1 /\ ParseInt(parts[1]).ok
                                THEN ParseInt(parts[1]).value
                                ELSE 0
                  IN  [raised |-> "none", uri |-> from_fs_path(path),
                       lineno |-> lineno]

\* << uri, lineno >>, lineno 0 stands for None.  On the drive-letter
\* platform the first element of parts is joined back onto the path.
get_location(location) ==
    LET segs == Split(location, << >>, << >>)
        path == IF IS_WIN THEN Head(segs) \o << ":" >> \o Head(Tail(segs))
                ELSE Head(segs)
        parts == IF IS_WIN THEN Tail(Tail(segs)) ELSE Tail(segs)
        lineno == IF Len(parts) = 1 /\ ParseInt(parts[1]).ok
                  THEN ParseInt(parts[1]).value
                  ELSE 0
    IN  << from_fs_path(path), lineno >>

\* OnceFilter.filter(record): [pass, messages]
OnceFilter(impl, messages, record) ==
    IF impl = "fallback"
    THEN [pass |-> TRUE, messages |-> messages]
    ELSE IF ~record.once
    THEN [pass |-> TRUE, messages |-> messages]
    ELSE IF record.msg \in messages
    THEN [pass |-> FALSE, messages |-> messages]
    ELSE [pass |-> TRUE, messages |-> messages \cup { record.msg }]

Diagnostic(line, message, severity) ==
    [range |-> [start |-> [line |-> line - 1, character |-> 0],
                end |-> [line |-> line, character |-> 0]],
     message |-> message,
     severity |-> severity]

\* SphinxLogHandler(app, server)
NewHandler ==
    [set |-> TRUE, translator |-> TRUE, diagnostics |-> EmptyDict,
     messages |-> {}]

emit_overwrite(impl, h, record) ==
    IF \/ "sphinx" \notin { record.name[i] : i \in 1..Len(record.name) }
       \/ record.levelno \notin { WARNING, ERROR }
       \/ ~h.translator
    THEN h
    ELSE LET once == OnceFilter(impl, h.messages, record)
             loc == get_location(record.location)
             diagnostic ==
                 Diagnostic(IF loc[2] = 0 THEN 1 ELSE loc[2], record.msg,
                            "Warning")
         IN  IF ~once.pass
             THEN [h EXCEPT !.messages = once.messages]
             ELSE [h EXCEPT
                     !.messages = once.messages,
                     !.diagnostics = DictSet(h.diagnostics, loc[1],
                                             << diagnostic >>)]

\* SphinxLogHandler.emit: the handler after the record
emit(impl, h, record) ==
    IF \/ "sphinx" \notin { record.name[i] : i \in 1..Len(record.name) }
       \/ record.levelno \notin { WARNING, ERROR }
       \/ ~h.translator
    THEN h
    ELSE LET once == OnceFilter(impl, h.messages, record)
             loc == get_location(record.location)
             doc == loc[1]
             line == IF loc[2] = 0 THEN 1 ELSE loc[2]
             diagnostic ==
                 Diagnostic(line, record.msg,
                            DictGet(DIAGNOSTIC_SEVERITY,
                                    IntKey(record.levelno), "Warning"))
         IN  IF ~once.pass
             THEN [h EXCEPT !.messages = once.messages]
             ELSE [h EXCEPT
                     !.messages = once.messages,
                     !.diagnostics =
                         IF doc \notin DOMAIN h.diagnostics
                         THEN DictSet(h.diagnostics, doc, << diagnostic >>)
                         ELSE DictSet(h.diagnostics, doc,
                                      Append(h.diagnostics[doc], diagnostic))]

RECURSIVE EmitAll(_, _, _)
EmitAll(impl, h, recs) ==
    IF recs = << >> THEN h
    ELSE EmitAll(impl, emit(impl, h, Head(recs)), Tail(recs))

IsWarning(record) == record.levelno >= WARNING

\* self.app.build(): the records reach the handler only while it is
\* attached to the engine's logger
EngineBuild(impl, a, h, run) ==
    [handler |-> IF a.logs THEN EmitAll(impl, h, run.recs) ELSE h,
     warncount |-> Cardinality({ i \in 1..Len(run.recs) : IsWarning(run.recs[i]) }),
     raised |-> run.raises]

EvPassThrough == "super.emit"
EvFilter == "only_once.filter"
EvTranslate == "translator.filter"
EvDiagnostic == "diagnostics.append"

\* SphinxLogHandler.emit with what it calls and whether it raises:
\* [h, events, raised]
emit_full(impl, h, record) ==
    IF \/ "sphinx" \notin { record.name[i] : i \in 1..Len(record.name) }
       \/ record.levelno \notin { WARNING, ERROR }
       \/ ~h.translator
    THEN [h |-> h, events |-> << EvPassThrough >>, raised |-> "none"]
    ELSE IF ~OnceFilter(impl, h.messages, record).pass
    THEN [h |-> emit(impl, h, record), events |-> << EvFilter >>,
          raised |-> "none"]
    ELSE IF get_location_on(IS_WIN, record.location).raised # "none"
    THEN [h |-> [h EXCEPT !.messages =
                    OnceFilter(impl, h.messages, record).messages],
          events |-> << EvFilter, EvTranslate >>,
          raised |-> get_location_on(IS_WIN, record.location).raised]
    ELSE [h |-> emit(impl, h, record),
          events |-> << EvFilter, EvTranslate, EvDiagnostic, EvPassThrough >>,
          raised |-> "none"]

----------------------------------------------------------------------------
(* Diagnostics kept by the base language server *)

\* RstLanguageServer.set_diagnostics("sphinx", uri, diagnostics)
set_diagnostics(stored, doc, diagnostics) == DictSet(stored, doc, diagnostics)

\* RstLanguageServer.clear_diagnostics("sphinx", uri)
clear_diagnostics(stored, doc) ==
    IF doc \in DOMAIN stored THEN DictSet(stored, doc, << >>) ELSE stored

\* RstLanguageServer.sync_diagnostics(): every stored uri is published,
\* replacing what the client had for it
sync_diagnostics(stored, pub) ==
    [u \in (DOMAIN pub) \cup (DOMAIN stored) |->
        IF u \in DOMAIN stored THEN stored[u] ELSE pub[u]]

\* diagnostics of a uri, empty when there is no entry
DiagsOf(d, doc) == DictGet(d, doc, << >>)

----------------------------------------------------------------------------
(* Server operations as functions of the server state                      *)
(*   S = [app, sphinx_log, stored, published, events, raised]              *)

ServerState ==
    [app |-> app, sphinx_log |-> sphinx_log, stored |-> _diagnostics,
     published |-> published, events |-> << >>, raised |-> "none"]

EvWarning == "show_message:Warning"
EvError == "show_message:Error"
EvInit == "_initialize_sphinx"
EvResetCount == "_warncount=0"
EvResetDiags == "sphinx_log.diagnostics={}"
EvEngine == "app.build"
EvCopy == "set_diagnostics"
EvNotify == "send_notification:esbonio/buildComplete:{}"
EvSync == "sync_diagnostics"
EvClear == "clear_diagnostics"

Repeat(x, n) == [i \in 1..n |-> x]

\* build(), lines 260-262: reset the warning counter and the accumulator
reset_build(S) ==
    [S EXCEPT !.app._warncount = 0,
              !.sphinx_log.diagnostics = EmptyDict,
              !.events = @ \o << EvResetCount, EvResetDiags >>]

\* the mutant lets the exception of the build step leave build()
try_build_propagate(S, impl, run) ==
    LET eng == EngineBuild(impl, S.app, S.sphinx_log, run)
    IN  [S EXCEPT !.app._warncount = eng.warncount,
                  !.sphinx_log = eng.handler,
                  !.events = Append(@, EvEngine),
                  !.raised = IF eng.raised THEN "Exception" ELSE @]

\* build(), lines 264-270: the build step inside try / except Exception
try_build(S, impl, run) ==
    LET eng == EngineBuild(impl, S.app, S.sphinx_log, run)
    IN  [S EXCEPT !.app._warncount = eng.warncount,
                  !.sphinx_log = eng.handler,
                  !.events = @ \o << EvEngine >>
                               \o (IF eng.raised THEN << EvError >> ELSE << >>)]

\* the mutant adds the new groups to what is stored instead of replacing it
finish_build_merge(S) ==
    LET found == S.sphinx_log.diagnostics
        stored == [u \in (DOMAIN S.stored) \cup (DOMAIN found) |->
                     IF u \in DOMAIN found
                     THEN DiagsOf(S.stored, u) \o found[u]
                     ELSE S.stored[u]]
    IN  [S EXCEPT !.stored = stored,
                  !.published = sync_diagnostics(stored, S.published),
                  !.events = @ \o Repeat(EvCopy, Cardinality(DOMAIN found))
                               \o << EvNotify, EvSync >>]

\* build(), lines 272-277: copy every accumulated group, notify, publish
finish_build(S) ==
    LET found == S.sphinx_log.diagnostics
        stored == [u \in (DOMAIN S.stored) \cup (DOMAIN found) |->
                     IF u \in DOMAIN found
                     THEN set_diagnostics(S.stored, u, found[u])[u]
                     ELSE S.stored[u]]
    IN  [S EXCEPT !.stored = stored,
                  !.published = sync_diagnostics(stored, S.published),
                  !.events = @ \o Repeat(EvCopy, Cardinality(DOMAIN found))
                               \o << EvNotify, EvSync >>]

\* the mutant drops what a failed build step accumulated
build_discard(S, impl, run) ==
    IF S.app = NoApp THEN S
    ELSE IF ~S.sphinx_log.set
    THEN [S EXCEPT !.app._warncount = 0,
                   !.events = Append(@, EvResetCount),
                   !.raised = "AttributeError"]
    ELSE LET T == try_build(reset_build(S), impl, run)
         IN  IF run.raises
             THEN finish_build([T EXCEPT !.sphinx_log.diagnostics = EmptyDict])
             ELSE finish_build(T)

build_noguard(S, impl, run) ==
    IF S.app = NoApp THEN finish_build(S)
    ELSE IF ~S.sphinx_log.set
    THEN [S EXCEPT !.app._warncount = 0,
                   !.events = Append(@, EvResetCount),
                   !.raised = "AttributeError"]
    ELSE LET T == try_build(reset_build(S), impl, run)
         IN  IF T.raised # "none" THEN T ELSE finish_build(T)

\* SphinxLanguageServer.build.  Assigning self.sphinx_log.diagnostics
\* raises AttributeError when self.sphinx_log was never assigned.
build(S, impl, run) ==
    IF S.app = NoApp THEN S
    ELSE IF ~S.sphinx_log.set
    THEN [S EXCEPT !.app._warncount = 0,
                   !.events = Append(@, EvResetCount),
                   !.raised = "AttributeError"]
    ELSE LET T == try_build(reset_build(S), impl, run)
         IN  IF T.raised # "none" THEN T ELSE finish_build(T)

\* the mutant keeps the application object when creation fails
_initialize_sphinx_keep(S, options, disk) ==
    LET made == create_sphinx_app(options, disk)
        log == IF made.handler THEN NewHandler ELSE S.sphinx_log
    IN  IF made.outcome = "ok"
        THEN [S EXCEPT !.app = made.app, !.sphinx_log = log,
                       !.events = Append(@, EvInit)]
        ELSE IF made.outcome = "MissingConfigError"
        THEN [S EXCEPT !.events = @ \o << EvInit, EvWarning >>]
        ELSE [S EXCEPT !.events = @ \o << EvInit, EvError >>]

\* SphinxLanguageServer._initialize_sphinx followed by the assignment
\* self.app = ...
_initialize_sphinx(S, options, disk) ==
    LET made == create_sphinx_app(options, disk)
        log == IF made.handler THEN NewHandler ELSE S.sphinx_log
    IN  IF made.outcome = "ok"
        THEN [S EXCEPT !.app = made.app, !.sphinx_log = log,
                       !.events = Append(@, EvInit)]
        ELSE IF made.outcome = "MissingConfigError"
        THEN [S EXCEPT !.app = NoApp,
                       !.events = @ \o << EvInit, EvWarning >>]
        ELSE [S EXCEPT !.app = NoApp,
                       !.events = @ \o << EvInit, EvError >>]

\* SphinxLanguageServer.initialize
initialize(S, options, disk, impl, run) ==
    build(_initialize_sphinx(S, options, disk), impl, run)

\* The part of save() before the final self.build()
save_prepare(S, doc, options, disk) ==
    LET filepath == to_fs_path(doc)
    IN  IF EndsWithConfPy(filepath)
        THEN LET found == IF S.app # NoApp
                          THEN [raised |-> "none", value |-> PyPath(S.app.confdir)]
                          ELSE find_conf_dir(root_uri, options, disk)
                 conf_dir == IF found.value = None THEN PyStr(<< >>)
                             ELSE found.value
             IN  IF found.raised # "none"
                 THEN [S EXCEPT !.raised = found.raised]
                 ELSE IF conf_dir.type # "Path"
                 THEN [S EXCEPT !.raised = "TypeError"]
                 ELSE IF ConfPyOf(conf_dir.v) = filepath
                 THEN _initialize_sphinx(S, options, disk)
                 ELSE S
        ELSE [S EXCEPT !.stored = clear_diagnostics(@, doc),
                       !.events = Append(@, EvClear)]

save_nobuild(S, doc, options, disk, impl, run) ==
    save_prepare(S, doc, options, disk)

\* SphinxLanguageServer.save
save(S, doc, options, disk, impl, run) ==
    LET mid == save_prepare(S, doc, options, disk)
    IN  IF mid.raised # "none" THEN mid ELSE build(mid, impl, run)

----------------------------------------------------------------------------
(* The engine's domains, per project definition *)

ObjType(name, roles) == [name |-> name, roles |-> roles]
Obj(name, type, docname) ==
    [name |-> name, dispname |-> name, type |-> type, docname |-> docname,
     anchor |-> name, priority |-> 1]

StdDomain ==
    [name |-> << "std" >>,
     roles |-> << << "ref" >>, << "term" >> >>,
     directives |-> << << "option" >> >>,
     object_types |-> << ObjType(<< "label" >>, << << "ref" >> >>),
                         ObjType(<< "term" >>, << << "term" >> >>) >>,
     objects |-> << Obj(<< "intro" >>, << "label" >>, << "index" >>) >>]

PyDomain ==
    [name |-> << "py" >>,
     roles |-> << << "func" >>, << "class" >>, << "exc" >> >>,
     directives |-> << << "function" >> >>,
     object_types |-> << ObjType(<< "function" >>, << << "func" >>, << "obj" >> >>),
                         ObjType(<< "class" >>, << << "class" >>, << "exc" >>, << "obj" >> >>),
                         ObjType(<< "exception" >>, << << "exc" >>, << "class" >>, << "obj" >> >>) >>,
     objects |-> << Obj(<< "join" >>, << "function" >>, << "api" >>),
                    Obj(<< "Path" >>, << "class" >>, << "api" >>),
                    Obj(<< "split" >>, << "function" >>, << "api" >>) >>]

CDomain ==
    [name |-> << "c" >>,
     roles |-> << << "func" >> >>,
     directives |-> << << "function" >> >>,
     object_types |-> << ObjType(<< "function" >>, << << "func" >> >>) >>,
     objects |-> << Obj(<< "main" >>, << "function" >>, << "capi" >>) >>]

\* a domain registered by an extension whose object type "label" is
\* referenced by the role "ref", as std's "label" is
CfgDomain ==
    [name |-> << "cfg" >>,
     roles |-> << << "ref" >>, << "option" >> >>,
     directives |-> << << "option" >> >>,
     object_types |-> << ObjType(<< "label" >>, << << "ref" >> >>),
                         ObjType(<< "option" >>, << << "option" >> >>) >>,
     objects |-> << Obj(<< "setup" >>, << "label" >>, << "usage" >>),
                    Obj(<< "debug" >>, << "option" >>, << "usage" >>) >>]

\* app.env.domains (in registration order) and app.config.primary_domain
\* for each project definition; "" stands for no primary domain
Project(version) ==
    IF version = "v1"
    THEN [domains |-> << StdDomain, PyDomain >>, primary_domain |-> << >>]
    ELSE IF version = "v3"
    THEN [domains |-> << StdDomain, CfgDomain >>,
          primary_domain |-> << "cfg" >>]
    ELSE [domains |-> << StdDomain, PyDomain, CDomain >>,
          primary_domain |-> << "py" >>]

\* "{prefix}:{name}" if prefix else "{name}"
Fmt(prefix, name) == IF prefix # << >> THEN prefix \o << ":" >> \o name ELSE name

\* SphinxLanguageServer.get_domains: sequence of << prefix, domain >>
get_domains(a) ==
    IF a = NoApp THEN << >>
    ELSE LET proj == Project(a.version)
         IN  [i \in 1..Len(proj.domains) |->
                LET d == proj.domains[i]
                IN  << IF d.name = << "std" >> \/ d.name = proj.primary_domain
                       THEN << >> ELSE d.name,
                       d >>]

\* the roles / directives the base server knows without Sphinx
BaseRoles == [k \in { << "emphasis" >> } |-> << "docutils" >>]
BaseDirectives == [k \in { << "note" >> } |-> << "docutils" >>]

\* for name in names: d[Fmt(prefix, name)] = << domain, name >>
RECURSIVE AddNames(_, _, _, _)
AddNames(d, prefix, dname, names) ==
    IF names = << >> THEN d
    ELSE AddNames(DictSet(d, Fmt(prefix, Head(names)), dname \o << "." >> \o Head(names)),
                  prefix, dname, Tail(names))

RECURSIVE AddDomainRoles(_, _)
AddDomainRoles(d, doms) ==
    IF doms = << >> THEN d
    ELSE AddDomainRoles(AddNames(d, Head(doms)[1], Head(doms)[2].name,
                                 Head(doms)[2].roles),
                        Tail(doms))

RECURSIVE AddDomainDirectives(_, _)
AddDomainDirectives(d, doms) ==
    IF doms = << >> THEN d
    ELSE AddDomainDirectives(AddNames(d, Head(doms)[1], Head(doms)[2].name,
                                      Head(doms)[2].directives),
                             Tail(doms))

\* the dict get_roles() builds when it has no cache
BuildRoles(a) == AddDomainRoles(BaseRoles, get_domains(a))

\* the dict get_directives() builds when it has no cache
BuildDirectives(a) == AddDomainDirectives(BaseDirectives, get_domains(a))

\* for role in item_type.roles: append the type key under the role key
RECURSIVE AddTypeRoles(_, _, _, _)
AddTypeRoles(d, prefix, tname, roles) ==
    IF roles = << >> THEN d
    ELSE LET role_key == Fmt(prefix, Head(roles))
             target_types == Append(DictGet(d, role_key, << >>), Fmt(prefix, tname))
         IN  AddTypeRoles(DictSet(d, role_key, target_types), prefix, tname,
                          Tail(roles))

RECURSIVE AddObjectTypes(_, _, _)
AddObjectTypes(d, prefix, types) ==
    IF types = << >> THEN d
    ELSE AddObjectTypes(AddTypeRoles(d, prefix, Head(types).name, Head(types).roles),
                        prefix, Tail(types))

RECURSIVE AddDomainTypes(_, _)
AddDomainTypes(d, doms) ==
    IF doms = << >> THEN d
    ELSE AddDomainTypes(AddObjectTypes(d, Head(doms)[1], Head(doms)[2].object_types),
                        Tail(doms))

\* the dict get_role_target_types() builds when it has no cache
BuildRoleTargetTypes(a) == AddDomainTypes(EmptyDict, get_domains(a))

RECURSIVE AddObjects(_, _, _)
AddObjects(d, prefix, objs) ==
    IF objs = << >> THEN d
    ELSE LET obj_key == Fmt(prefix, Head(objs).type)
         IN  AddObjects(DictSet(d, obj_key,
                                Append(DictGet(d, obj_key, << >>), Head(objs))),
                        prefix, Tail(objs))

RECURSIVE AddDomainObjects(_, _)
AddDomainObjects(d, doms) ==
    IF doms = << >> THEN d
    ELSE AddDomainObjects(AddObjects(d, Head(doms)[1], Head(doms)[2].objects),
                          Tail(doms))

\* SphinxLanguageServer._index_role_targets
_index_role_targets(a) == AddDomainObjects(EmptyDict, get_domains(a))

\* a cache attribute: None, or a dict
NoCache == [isNone |-> TRUE, d |-> EmptyDict]
Cached(d) == [isNone |-> FALSE, d |-> d]

\* SphinxLanguageServer.get_roles: [cache, result]
get_roles(cache, a) ==
    IF ~cache.isNone THEN [cache |-> cache, result |-> cache.d]
    ELSE [cache |-> Cached(BuildRoles(a)), result |-> BuildRoles(a)]

\* SphinxLanguageServer.get_directives: [cache, result]
get_directives(cache, a) ==
    IF ~cache.isNone THEN [cache |-> cache, result |-> cache.d]
    ELSE [cache |-> Cached(BuildDirectives(a)), result |-> BuildDirectives(a)]

get_role_target_types_bare(cache, a, name, domain) ==
    IF ~cache.isNone
    THEN [cache |-> cache, result |-> DictGet(cache.d, name, << >>)]
    ELSE [cache |-> Cached(BuildRoleTargetTypes(a)),
          result |-> DictGet(BuildRoleTargetTypes(a), name, << >>)]

\* SphinxLanguageServer.get_role_target_types: [cache, result]
get_role_target_types(cache, a, name, domain) ==
    LET key == IF domain # << >> THEN domain \o << ":" >> \o name ELSE name
    IN  IF ~cache.isNone
        THEN [cache |-> cache, result |-> DictGet(cache.d, key, << >>)]
        ELSE [cache |-> Cached(BuildRoleTargetTypes(a)),
              result |-> DictGet(BuildRoleTargetTypes(a), key, << >>)]

RECURSIVE ConcatTargets(_, _)
ConcatTargets(d, types) ==
    IF types = << >> THEN << >>
    ELSE DictGet(d, Head(types), << >>) \o ConcatTargets(d, Tail(types))

get_role_targets_reversed(tcache, ocache, a, name, domain) ==
    LET objs == IF ocache.isNone THEN Cached(_index_role_targets(a)) ELSE ocache
        types == get_role_target_types(tcache, a, name, domain)
        n == Len(types.result)
    IN  [types |-> types.cache, targets |-> objs,
         result |-> ConcatTargets(objs.d,
                                  [i \in 1..n |-> types.result[n + 1 - i]])]

\* SphinxLanguageServer.get_role_targets: [types, targets, result]
get_role_targets(tcache, ocache, a, name, domain) ==
    LET objs == IF ocache.isNone THEN Cached(_index_role_targets(a)) ELSE ocache
        types == get_role_target_types(tcache, a, name, domain)
    IN  [types |-> types.cache, targets |-> objs,
         result |-> ConcatTargets(objs.d, types.result)]

\* app.env.intersphinx_named_inventory of each project definition:
\* the project names in configuration order and, per project, the
\* inventory keyed by "domain:type" (or whatever key the inventory file
\* holds); v1 does not load the intersphinx extension
PythonInv ==
    [k \in { << "py", ":", "function" >>, << "std", ":", "label" >> } |->
        IF k = << "py", ":", "function" >> THEN << << "os.path.join" >> >>
        ELSE << << "tut-intro" >> >>]

MixedInv ==
    [k \in { << "function" >>, << "py", ":", "function" >>,
             << "py", ":", "label" >>, << "std", ":", "label" >> } |->
        IF k = << "function" >> THEN << << "bare.f" >> >>
        ELSE IF k = << "py", ":", "function" >> THEN << << "py.f" >> >>
        ELSE IF k = << "py", ":", "label" >> THEN << << "py-label" >> >>
        ELSE << << "std-label" >> >>]

Inventory(version) ==
    IF version = "v1"
    THEN [names |-> << >>, inv |-> EmptyDict]
    ELSE [names |-> << << "python" >>, << "mixed" >> >>,
          inv |-> [n \in { << "python" >>, << "mixed" >> } |->
                     IF n = << "python" >> THEN PythonInv ELSE MixedInv]]

\* SphinxLanguageServer.get_intersphinx_projects: [raised, result];
\* self.app.env fails when there is no app
get_intersphinx_projects(a) ==
    IF a = NoApp THEN [raised |-> "AttributeError", result |-> << >>]
    ELSE [raised |-> "none", result |-> Inventory(a.version).names]

\* the loop over the target types: the dict so far as a sequence of
\* << target_type, entries >> in insertion order
RECURSIVE LookupTypes(_, _, _, _)
LookupTypes(targets, inv, primary_domain, types) ==
    IF types = << >> THEN targets
    ELSE LET target_type == Head(types)
             primary_key == primary_domain \o << ":" >> \o target_type
             std_key == << "std", ":" >> \o target_type
             others == SelectSeq(targets, LAMBDA e : e[1] # target_type)
             hit == IF target_type \in DOMAIN inv THEN << inv[target_type] >>
                    ELSE IF primary_key \in DOMAIN inv THEN << inv[primary_key] >>
                    ELSE IF std_key \in DOMAIN inv THEN << inv[std_key] >>
                    ELSE << >>
         IN  LookupTypes(IF hit = << >> THEN targets
                         ELSE IF Len(others) = Len(targets)
                         THEN Append(targets, << target_type, hit[1] >>)
                         ELSE [i \in 1..Len(targets) |->
                                 IF targets[i][1] = target_type
                                 THEN << target_type, hit[1] >>
                                 ELSE targets[i]],
                         inv, primary_domain, Tail(types))

\* SphinxLanguageServer.get_intersphinx_targets: [cache, raised, result]
get_intersphinx_targets(cache, a, project, name, domain) ==
    IF a = NoApp
    THEN [cache |-> cache, raised |-> "AttributeError", result |-> << >>]
    ELSE IF project \notin DOMAIN Inventory(a.version).inv
    THEN [cache |-> cache, raised |-> "none", result |-> << >>]
    ELSE LET types == get_role_target_types(cache, a, name, domain)
         IN  [cache |-> types.cache, raised |-> "none",
              result |-> LookupTypes(<< >>, Inventory(a.version).inv[project],
                                     Project(a.version).primary_domain,
                                     types.result)]

----------------------------------------------------------------------------
(* The state machine *)

NoOptions == [cls |-> "NoneType"]
NoRun == [recs |-> << >>, raises |-> FALSE]

\* tick flips with every operation of the server
Observation(op, doc, S, run, mid, result) ==
    [op |-> op, doc |-> doc, events |-> S.events, raised |-> S.raised,
     run |-> run, mid |-> mid, result |-> result, tick |-> ~last.tick]

\* no notification is waiting and no handler is running
NoLoop == [inbox |-> << >>, running |-> << >>, arrived |-> 0, built |-> 0,
           followed |-> 0]

Init ==
    /\ loop = NoLoop
    /\ fs \in FsStates
    /\ onceImpl \in { "sphinx", "fallback" }
    /\ initialized = FALSE
    /\ user_config = NoOptions
    /\ app = NoApp
    /\ sphinx_log = Unset
    /\ _diagnostics = EmptyDict
    /\ published = EmptyDict
    /\ _roles = NoCache
    /\ _directives = NoCache
    /\ _role_target_types = NoCache
    /\ _role_targets = NoCache
    /\ last = [op |-> "none", doc |-> << >>, events |-> << >>,
               raised |-> "none", run |-> NoRun, mid |-> EmptyDict,
               result |-> << >>, tick |-> FALSE]

caches == << _roles, _directives, _role_target_types, _role_targets >>
server == << app, sphinx_log, _diagnostics, published >>
env == << fs, onceImpl, loop >>

\* the server variables take the values of the server state S
Becomes(S) ==
    /\ app' = S.app
    /\ sphinx_log' = S.sphinx_log
    /\ _diagnostics' = S.stored
    /\ published' = S.published

\* the client sends initialize with its options
Initialize(options, run) ==
    /\ ~initialized
    /\ initialized' = TRUE
    /\ user_config' = options
    /\ LET S == initialize(ServerState, options, fs, onceImpl, run)
       IN  /\ Becomes(S)
           /\ last' = Observation("initialize", << >>, S, run, S.stored, << >>)
    /\ UNCHANGED << env, caches >>

\* the client reports that a document was saved (a saved file exists on
\* disk)
Save(doc, run) ==
    /\ initialized
    /\ to_fs_path(doc) = ConfPyOf(DocsDir) => fs # "absent"
    /\ LET S == save(ServerState, doc, user_config, fs, onceImpl, run)
           mid == save_prepare(ServerState, doc, user_config, fs)
       IN  /\ Becomes(S)
           /\ last' = Observation("save", doc, S, run, mid.stored, << >>)
    /\ UNCHANGED << env, initialized, user_config, caches >>

\* build() called on its own
Build(run) ==
    /\ LET S == build(ServerState, onceImpl, run)
       IN  /\ Becomes(S)
           /\ last' = Observation("build", << >>, S, run, S.stored, << >>)
    /\ UNCHANGED << env, initialized, user_config, caches >>

\* the client sends the initialized notification
Initialized ==
    /\ initialized
    /\ published' = sync_diagnostics(_diagnostics, published)
    /\ last' = Observation("initialized", << >>,
                           [ServerState EXCEPT !.events = << EvSync >>],
                           NoRun, _diagnostics, << >>)
    /\ UNCHANGED << env, initialized, user_config, app, sphinx_log,
                    _diagnostics, caches >>

\* the user edits, creates or deletes docs/conf.py on disk
EditConf(content) ==
    /\ content # fs
    /\ fs' = content
    /\ UNCHANGED << onceImpl, loop, initialized, user_config, server, caches,
                    last >>

\* index queries arrive once the server is initialized
RoleNames == { << "func" >>, << "ref" >>, << "obj" >>, << "py", ":", "func" >> }
DomainNames == { << >>, << "py" >>, << "c" >> }

GetRoles ==
    /\ initialized
    /\ LET r == get_roles(_roles, app)
       IN  /\ _roles' = r.cache
           /\ last' = Observation("get_roles", << >>, ServerState, NoRun,
                                  EmptyDict, r.result)
    /\ UNCHANGED << env, initialized, user_config, server, _directives,
                    _role_target_types, _role_targets >>

GetDirectives ==
    /\ initialized
    /\ LET r == get_directives(_directives, app)
       IN  /\ _directives' = r.cache
           /\ last' = Observation("get_directives", << >>, ServerState, NoRun,
                                  EmptyDict, r.result)
    /\ UNCHANGED << env, initialized, user_config, server, _roles,
                    _role_target_types, _role_targets >>

GetRoleTargetTypes(name, domain) ==
    /\ initialized
    /\ LET r == get_role_target_types(_role_target_types, app, name, domain)
       IN  /\ _role_target_types' = r.cache
           /\ last' = Observation("get_role_target_types", << name, domain >>,
                                  ServerState, NoRun, EmptyDict, r.result)
    /\ UNCHANGED << env, initialized, user_config, server, _roles,
                    _directives, _role_targets >>

GetRoleTargets(name, domain) ==
    /\ initialized
    /\ LET r == get_role_targets(_role_target_types, _role_targets, app,
                                 name, domain)
       IN  /\ _role_target_types' = r.types
           /\ _role_targets' = r.targets
           /\ last' = Observation("get_role_targets", << name, domain >>,
                                  ServerState, NoRun, EmptyDict, r.result)
    /\ UNCHANGED << env, initialized, user_config, server, _roles,
                    _directives >>

\* get_domains() consumed into a list
GetDomains ==
    /\ initialized
    /\ last' = Observation("get_domains", << >>, ServerState, NoRun,
                           EmptyDict, get_domains(app))
    /\ UNCHANGED << env, initialized, user_config, server, caches >>

ProjectNames == { << "python" >>, << "mixed" >>, << "numpy" >> }

GetIntersphinxProjects ==
    /\ initialized
    /\ LET r == get_intersphinx_projects(app)
       IN  last' = Observation("get_intersphinx_projects", << >>,
                               [ServerState EXCEPT !.raised = r.raised],
                               NoRun, EmptyDict, r.result)
    /\ UNCHANGED << env, initialized, user_config, server, caches >>

GetIntersphinxTargets(project, name, domain) ==
    /\ initialized
    /\ LET r == get_intersphinx_targets(_role_target_types, app, project,
                                        name, domain)
       IN  /\ _role_target_types' = r.cache
           /\ last' = Observation("get_intersphinx_targets",
                                  << name, domain, project >>,
                                  [ServerState EXCEPT !.raised = r.raised],
                                  NoRun, EmptyDict, r.result)
    /\ UNCHANGED << env, initialized, user_config, server, _roles,
                    _directives, _role_targets >>

\* Lifecycle: every option, every state of the config file
Next ==
    \/ \E options \in AllOptions, run \in LifeRuns : Initialize(options, run)
    \/ \E doc \in SavedDocs, run \in LifeRuns : Save(doc, run)
    \/ \E run \in LifeRuns : Build(run)
    \/ Initialized
    \/ \E content \in FsStates : EditConf(content)

Spec == Init /\ [][Next]_vars

DefaultOptions == { InitializationOptions(None, FALSE) }

\* Diagnostics: a valid project with default options, the engine logs up
\* to MaxRecords records per build and may fail
InitDiag == Init /\ fs = "v1"

NextDiag ==
    \/ \E options \in DefaultOptions, run \in EngineRuns : Initialize(options, run)
    \/ \E doc \in SavedDocs, run \in EngineRuns : Save(doc, run)
    \/ \E run \in EngineRuns : Build(run)
    \/ Initialized

SpecDiag == InitDiag /\ [][NextDiag]_vars

\* Index queries: default options, the engine builds quietly
InitIndex == Init /\ onceImpl = "sphinx"

NextIndex ==
    \/ \E options \in DefaultOptions, run \in QuietRuns : Initialize(options, run)
    \/ \E doc \in SavedDocs, run \in QuietRuns : Save(doc, run)
    \/ \E content \in FsStates : EditConf(content)
    \/ GetRoles
    \/ GetDirectives
    \/ \E name \in RoleNames, domain \in DomainNames :
          GetRoleTargetTypes(name, domain)
    \/ \E name \in RoleNames, domain \in DomainNames :
          GetRoleTargets(name, domain)

SpecIndex == InitIndex /\ [][NextIndex]_vars

\* Intersphinx and Degraded queries: the config file is edited and saved,
\* roles are queried bare or with the c prefix
InterRoles == { << "func" >>, << "ref" >> }
InterDomains == { << >>, << "c" >> }

NextInter ==
    \/ \E options \in DefaultOptions, run \in QuietRuns : Initialize(options, run)
    \/ \E run \in QuietRuns : Save(from_fs_path(ConfPyOf(DocsDir)), run)
    \/ \E content \in FsStates : EditConf(content)
    \/ GetDomains
    \/ \E name \in InterRoles, domain \in InterDomains :
          GetRoleTargetTypes(name, domain)
    \/ \E name \in InterRoles, domain \in InterDomains :
          GetRoleTargets(name, domain)
    \/ GetIntersphinxProjects
    \/ \E project \in ProjectNames, name \in InterRoles, domain \in InterDomains :
          GetIntersphinxTargets(project, name, domain)

SpecInter == InitIndex /\ [][NextInter]_vars

\* Index queries on a project whose primary domain is cfg: conf.py holds
\* the project with or without the cfg extension
CfgStates == { "v2", "v3" }
CfgRoles == { << "ref" >>, << "option" >>, << "func" >> }
CfgDomains == { << >>, << "cfg" >> }

InitCfg ==
    /\ loop = NoLoop
    /\ fs = "v3"
    /\ onceImpl = "sphinx"
    /\ initialized = FALSE
    /\ user_config = NoOptions
    /\ app = NoApp
    /\ sphinx_log = Unset
    /\ _diagnostics = EmptyDict
    /\ published = EmptyDict
    /\ _roles = NoCache
    /\ _directives = NoCache
    /\ _role_target_types = NoCache
    /\ _role_targets = NoCache
    /\ last = [op |-> "none", doc |-> << >>, events |-> << >>,
               raised |-> "none", run |-> NoRun, mid |-> EmptyDict,
               result |-> << >>, tick |-> FALSE]

NextCfg ==
    \/ \E options \in DefaultOptions, run \in QuietRuns : Initialize(options, run)
    \/ \E run \in QuietRuns : Save(from_fs_path(ConfPyOf(DocsDir)), run)
    \/ \E content \in CfgStates : EditConf(content)
    \/ \E name \in CfgRoles, domain \in CfgDomains :
          GetRoleTargetTypes(name, domain)
    \/ \E name \in CfgRoles, domain \in CfgDomains :
          GetRoleTargets(name, domain)

SpecCfg == InitCfg /\ [][NextCfg]_vars

\* levels of the logging module outside { WARNING, ERROR }
INFO == 20
CRITICAL == 50

EsbonioLoggerName == << "esbonio", ".", "lsp" >>

\* records that reach the handler: from the engine's loggers or not, at
\* every level, flagged once or not, with a location or none
LogRecords ==
    { [Record(levelno, m, location, once) EXCEPT !.name = name] :
        name \in { SphinxLoggerName, EsbonioLoggerName },
        levelno \in { INFO, WARNING, ERROR, CRITICAL },
        m \in Msgs,
        location \in Locations \cup { IndexRst \o << ":", "42" >>, NoLocation },
        once \in BOOLEAN }

MaxDiagnostics == 2

RECURSIVE SumLens(_, _)
SumLens(d, keys) ==
    IF keys = {} THEN 0
    ELSE LET k == CHOOSE x \in keys : TRUE
         IN  Len(d[k]) + SumLens(d, keys \ { k })

\* number of diagnostics the handler holds
Held(h) == SumLens(h.diagnostics, DOMAIN h.diagnostics)

\* a logger hands a record to the handler
Emit(record) ==
    /\ sphinx_log.set
    /\ Held(sphinx_log) < MaxDiagnostics
    /\ LET e == emit_full(onceImpl, sphinx_log, record)
       IN  /\ sphinx_log' = e.h
           /\ last' = Observation("emit", << >>,
                                  [ServerState EXCEPT !.events = e.events,
                                                      !.raised = e.raised],
                                  [recs |-> << record >>, raises |-> FALSE],
                                  EmptyDict, << >>)
    /\ UNCHANGED << env, initialized, user_config, app, _diagnostics,
                    published, caches >>

\* Log handler: the server after initialize with default options on a
\* valid project and a quiet first build; records arrive one at a time
InitLog ==
    /\ loop = NoLoop
    /\ fs = "v1"
    /\ onceImpl \in { "sphinx", "fallback" }
    /\ initialized = TRUE
    /\ user_config \in DefaultOptions
    /\ LET S == initialize([app |-> NoApp, sphinx_log |-> Unset,
                            stored |-> EmptyDict, published |-> EmptyDict,
                            events |-> << >>, raised |-> "none"],
                           user_config, fs, onceImpl, NoRun)
       IN  /\ app = S.app
           /\ sphinx_log = S.sphinx_log
           /\ _diagnostics = S.stored
           /\ published = S.published
           /\ last = [op |-> "initialize", doc |-> << >>, events |-> S.events,
                      raised |-> S.raised, run |-> NoRun, mid |-> S.stored,
                      result |-> << >>, tick |-> TRUE]
    /\ _roles = NoCache
    /\ _directives = NoCache
    /\ _role_target_types = NoCache
    /\ _role_targets = NoCache

\* records arrive one at a time within a build; a build of its own, in
\* which the engine logs nothing, starts the next one
NextLog ==
    \/ \E record \in LogRecords : Emit(record)
    \/ \E run \in QuietRuns : Build(run)

SpecLog == InitLog /\ [][NextLog]_vars

\* Event loop: one thread takes the queued notifications in order and
\* runs each handler to completion; MaxEvents saves arrive at any time
MaxEvents == 3

LoopDocs == { from_fs_path(IndexRst), from_fs_path(ConfPyOf(DocsDir)) }

\* the client's didSave notification reaches the server
DidSave(doc) ==
    /\ loop.arrived < MaxEvents
    /\ loop' = [loop EXCEPT
                  !.arrived = @ + 1,
                  !.inbox = Append(@, [id |-> loop.arrived + 1, doc |-> doc,
                                       during |-> loop.running # << >>])]
    /\ UNCHANGED << fs, onceImpl, initialized, user_config, server, caches,
                    last >>

\* the loop is idle and takes the oldest notification: its handler, and
\* with it the handler's build, is in flight
Start ==
    /\ loop.inbox # << >>
    /\ loop.running = << >>
    /\ loop' = [loop EXCEPT !.inbox = Tail(@),
                            !.running = << Head(loop.inbox) >>]
    /\ UNCHANGED << fs, onceImpl, initialized, user_config, server, caches,
                    last >>

\* the handler in flight, save(), runs to its end
Finish(run) ==
    /\ loop.running # << >>
    /\ LET ev == Head(loop.running)
           S == save(ServerState, ev.doc, user_config, fs, onceImpl, run)
           mid == save_prepare(ServerState, ev.doc, user_config, fs)
           n == IF EvEngine \in { S.events[i] : i \in 1..Len(S.events) }
                THEN 1 ELSE 0
       IN  /\ Becomes(S)
           /\ last' = Observation("save", ev.doc, S, run, mid.stored, << >>)
           /\ loop' = [loop EXCEPT
                         !.running = Tail(@),
                         !.built = @ + n,
                         !.followed = @ + IF ev.during THEN n ELSE 0]
    /\ UNCHANGED << fs, onceImpl, initialized, user_config, caches >>

InitLoop == InitLog /\ onceImpl = "sphinx"

NextLoop ==
    \/ \E doc \in LoopDocs : DidSave(doc)
    \/ Start
    \/ \E run \in LifeRuns : Finish(run)

SpecLoop == InitLoop /\ [][NextLoop]_vars

\* Location parsing: a path followed by up to MaxSegments segments, on
\* either platform
MaxSegments == 2

WinIndexRst == << "C", ":", "\\doc\\index.rst" >>
UncIndexRst == << "\\\\srv\\doc\\index.rst" >>
LocationPaths == { IndexRst, << "/doc/index.rst" >>, WinIndexRst, UncIndexRst }
Segments == { << "42" >>, << "3" >>, << "abc" >>, << >>,
              << "docstring of f" >> }

RECURSIVE JoinSegments(_)
JoinSegments(segs) ==
    IF segs = << >> THEN << >>
    ELSE << ":" >> \o Head(segs) \o JoinSegments(Tail(segs))

LocationStrings ==
    { path \o JoinSegments(segs) :
        path \in LocationPaths, segs \in SeqsUpTo(Segments, MaxSegments) }

\* get_location applied to a location string on a platform
GetLocation(is_win, location) ==
    /\ last' = [op |-> "get_location", doc |-> location, events |-> << >>,
                raised |-> get_location_on(is_win, location).raised,
                run |-> NoRun, mid |-> EmptyDict,
                result |-> << [is_win |-> is_win,
                               uri |-> get_location_on(is_win, location).uri,
                               lineno |-> get_location_on(is_win, location).lineno] >>,
                tick |-> ~last.tick]
    /\ UNCHANGED << env, initialized, user_config, server, caches >>

InitLoc == Init /\ fs = "v1" /\ onceImpl = "sphinx"

NextLoc ==
    \E is_win \in BOOLEAN, location \in LocationStrings :
        GetLocation(is_win, location)

SpecLoc == InitLoc /\ [][NextLoc]_vars

----------------------------------------------------------------------------
(* Vocabulary of the properties *)

Has(ev, e) == \E i \in 1..Len(ev) : ev[i] = e
Count(ev, e) == Cardinality({ i \in 1..Len(ev) : ev[i] = e })
Elems(q) == { q[i] : i \in 1..Len(q) }

\* the step is an operation of the server (not an edit on disk)
OpStep == last'.tick # last.tick

\* the operation reached the engine's build step / the step raised
EngineInvoked(l) == Has(l.events, EvEngine)
EngineRaised(l) == EngineInvoked(l) /\ l.run.raises

\* the operation ran _initialize_sphinx
InitRan(l) == Has(l.events, EvInit)

\* every document that can be saved or can carry a diagnostic
AllUris == SavedDocs \cup { get_location(loc)[1] : loc \in Locations }

\* the accumulator of the log handler
Accumulated == sphinx_log.diagnostics

\* the document and 0-based line a record's diagnostic is placed at
RecordUri(r) == get_location(r.location)[1]
RecordLine(r) ==
    IF get_location(r.location)[2] = 0 THEN 0 ELSE get_location(r.location)[2] - 1

\* diagnostics in list q that report record r
Reports(q, r) ==
    { k \in 1..Len(q) : q[k].message = r.msg /\ q[k].range.start.line = RecordLine(r) }

----------------------------------------------------------------------------
----------------------------------------------------------------------------
(* C2: every roles(), directives(), roleTargetTypes() and roleTargets()    *)
(* result is derived from the domains of the currently active              *)
(* ProjectModel only.                                                      *)
C2_IndexFromActiveModel ==
    /\ last.op = "get_roles" => last.result = BuildRoles(app)
    /\ last.op = "get_directives" => last.result = BuildDirectives(app)
    /\ last.op = "get_role_target_types" =>
          last.result =
             DictGet(BuildRoleTargetTypes(app), Fmt(last.doc[2], last.doc[1]), << >>)
    /\ last.op = "get_role_targets" =>
          last.result =
             ConcatTargets(_index_role_targets(app),
                           DictGet(BuildRoleTargetTypes(app),
                                   Fmt(last.doc[2], last.doc[1]), << >>))

----------------------------------------------------------------------------
\* the config directory save() is meant to compare with: the active one,
\* or the newly resolved one when there is no ProjectModel
ActiveConfDir ==
    IF app # NoApp THEN app.confdir
    ELSE find_conf_dir(root_uri, user_config.sphinx, fs).value.v

(* C3: every save of the config file of the active (or, when the           *)
(* ProjectModel is absent, newly resolved) config directory re-runs        *)
(* initialize; a Degraded server whose config is valid again becomes       *)
(* Ready on that save.                                                     *)
C3_ConfigSaveReinitializes ==
    [][ (/\ OpStep
         /\ last'.op = "save"
         /\ to_fs_path(last'.doc) = ConfPyOf(ActiveConfDir)) =>
          /\ last'.raised = "none"
          /\ InitRan(last')
          /\ (app = NoApp /\ DiskAt(ActiveConfDir, fs) \in Versions) => app' # NoApp
      ]_vars

----------------------------------------------------------------------------
(* C4: initialize has three outcomes.  Creation succeeds: the new          *)
(* ProjectModel is present and no warning is shown.  Config directory not  *)
(* found: no ProjectModel, exactly one warning message, no error message.  *)
(* Any other failure: no ProjectModel, exactly one error message, no       *)
(* warning.  A failure never leaves a ProjectModel in place.               *)
C4_InitializeOutcomes ==
    [][ (OpStep /\ InitRan(last')) =>
          LET found == find_conf_dir(root_uri, user_config'.sphinx, fs).value
              valid == found # None /\ DiskAt(found.v, fs) \in Versions
              warnings == Count(last'.events, EvWarning)
              errors == Count(last'.events, EvError)
          IN  /\ (app' # NoApp) <=> valid
              /\ valid =>
                    /\ app'.confdir = found.v
                    /\ app'.version = fs
                    /\ warnings = 0
                    /\ errors = IF EngineRaised(last') THEN 1 ELSE 0
              /\ (~valid /\ found = None) => (warnings = 1 /\ errors = 0)
              /\ (~valid /\ found # None) => (warnings = 0 /\ errors = 1)
      ]_vars

\* a re-run of initialize failed after a ProjectModel had existed
C4_Witness ==
    /\ last.op = "save"
    /\ InitRan(last)
    /\ sphinx_log.set
    /\ app = NoApp
    /\ Count(last.events, EvError) = 1

----------------------------------------------------------------------------
(* C5: when the engine's build step raises, build() catches it, shows an   *)
(* error message and keeps the ProjectModel; the next save or build that   *)
(* still has a ProjectModel invokes the engine's build step again.         *)
C5_BuildFailureKeepsModel ==
    [][ OpStep =>
          /\ EngineRaised(last') =>
                /\ last'.raised = "none"
                /\ Has(last'.events, EvError)
                /\ app' # NoApp
                /\ ~InitRan(last') =>
                      [app' EXCEPT !._warncount = 0] = [app EXCEPT !._warncount = 0]
          /\ (EngineRaised(last) /\ last'.op \in { "save", "build" }) =>
                /\ last'.raised = "none"
                /\ app' # NoApp => EngineInvoked(last')
      ]_vars

\* a save whose build step raised, with the ProjectModel still there
C5_Witness ==
    /\ last.op = "save"
    /\ EngineRaised(last)
    /\ last.raised = "none"
    /\ app # NoApp

----------------------------------------------------------------------------
----------------------------------------------------------------------------
\* the events of an operation from the start of build()'s work on
RECURSIVE BuildPart(_)
BuildPart(ev) ==
    IF ev = << >> THEN << >>
    ELSE IF Head(ev) = EvResetCount THEN ev
    ELSE BuildPart(Tail(ev))

(* C7: in every build() with a ProjectModel present the steps are, in      *)
(* order: reset of the warning counter and of the accumulator, the         *)
(* engine's build step, (an error message if it raised,) the copy of every *)
(* accumulated group into the stored diagnostics, exactly one "build       *)
(* complete" notification with an empty payload, the synchronisation.      *)
C7_BuildStepOrder ==
    [][ (OpStep /\ last'.op \in { "initialize", "save", "build" }
                /\ app' # NoApp) =>
          /\ BuildPart(last'.events) =
                << EvResetCount, EvResetDiags, EvEngine >>
                \o (IF last'.run.raises THEN << EvError >> ELSE << >>)
                \o Repeat(EvCopy, Cardinality(DOMAIN sphinx_log'.diagnostics))
                \o << EvNotify, EvSync >>
          /\ \A u \in DOMAIN sphinx_log'.diagnostics :
                /\ DiagsOf(_diagnostics', u) = sphinx_log'.diagnostics[u]
                /\ DiagsOf(published', u) = sphinx_log'.diagnostics[u]
      ]_vars

----------------------------------------------------------------------------
(* C8: every save that does not re-run initialize clears the saved         *)
(* document's stored diagnostics before the build starts, and that step    *)
(* changes no other document's stored diagnostics.                         *)
C8_SaveClearsSavedDocument ==
    [][ (OpStep /\ last'.op = "save" /\ ~InitRan(last')) =>
          \A u \in AllUris :
              DiagsOf(last'.mid, u) =
                 IF u = last'.doc THEN << >> ELSE DiagsOf(_diagnostics, u)
      ]_vars

----------------------------------------------------------------------------
(* C9: within one build, a record at Warning severity or above fed a       *)
(* second time with the same (message, location) produces no second        *)
(* diagnostic: the accumulator holds exactly one diagnostic for it.        *)
C9_OneDiagnosticPerMessageLocation ==
    EngineInvoked(last) =>
        \A i, j \in 1..Len(last.run.recs) :
            LET r == last.run.recs[i]
                q == last.run.recs[j]
            IN  (i < j /\ r.msg = q.msg /\ r.location = q.location
                       /\ r.levelno >= WARNING /\ q.levelno >= WARNING) =>
                   Cardinality(Reports(DiagsOf(Accumulated, RecordUri(r)), r)) = 1

----------------------------------------------------------------------------
(* C10: the report-once filter is reset at the start of each build: a      *)
(* (message, location) reported in an earlier build of the same            *)
(* ProjectModel and emitted again in a later build yields a diagnostic in  *)
(* the later build.                                                        *)
C10_FilterResetPerBuild ==
    [][ (OpStep /\ EngineInvoked(last') /\ ~InitRan(last')) =>
          \A r \in Elems(last'.run.recs) :
              Reports(DiagsOf(sphinx_log.diagnostics, RecordUri(r)), r) # {} =>
                 Reports(DiagsOf(sphinx_log'.diagnostics, RecordUri(r)), r) # {}
      ]_vars


\* the record the handler was handed in the last emit
Emitted == last.run.recs[1]

\* C11: a diagnostic's severity is Error when the record's level is ERROR,
\* Warning when it is WARNING, and Warning for any other level.
C11_SeverityFollowsLevel ==
    (last.op = "emit" /\ Has(last.events, EvDiagnostic)) =>
        Last(sphinx_log.diagnostics[RecordUri(Emitted)]).severity
            = IF Emitted.levelno = ERROR THEN "Error" ELSE "Warning"

\* the segments a location string splits into at its colons
SegmentsOf(location) == Split(location, << >>, << >>)

\* the path takes one segment, two on the drive-letter platform
PathSegments(is_win) == IF is_win THEN 2 ELSE 1

\* C12: for every location string the document is the path part and the
\* line is the integer N when exactly one segment follows the path and
\* parses as an integer, otherwise there is no line; on the drive-letter
\* platform the first two segments are rejoined as the path; parsing never
\* fails.
C12_LocationParsing ==
    last.op = "get_location" =>
        LET r == last.result[1]
            segs == SegmentsOf(last.doc)
            k == PathSegments(r.is_win)
        IN  /\ last.raised = "none"
            /\ Len(segs) >= k =>
                 /\ r.uri = from_fs_path(IF r.is_win
                                         THEN segs[1] \o << ":" >> \o segs[2]
                                         ELSE segs[1])
                 /\ r.lineno = IF Len(segs) = k + 1 /\ ParseInt(segs[k + 1]).ok
                               THEN ParseInt(segs[k + 1]).value
                               ELSE 0

FromEngine(record) == "sphinx" \in Elems(record.name)

\* C20: a record is passed through with no diagnostic if and only if its
\* source is not the build engine, or its severity is below Warning, or
\* there is no translation capability; every engine record at Warning
\* severity or above that the once filter does not drop adds exactly one
\* diagnostic.
C20_PassThroughOrDiagnostic ==
    [][ (OpStep /\ last'.op = "emit") =>
          LET record == last'.run.recs[1]
          IN  /\ (last'.events = << EvPassThrough >>)
                    <=> \/ ~FromEngine(record)
                        \/ record.levelno < WARNING
                        \/ ~sphinx_log.translator
              /\ ( /\ FromEngine(record)
                   /\ record.levelno >= WARNING
                   /\ sphinx_log.translator
                   /\ OnceFilter(onceImpl, sphinx_log.messages, record).pass )
                 => Held(sphinx_log') = Held(sphinx_log) + 1 ]_vars


\* the arguments of the last index query
QueryName == last.doc[1]
QueryDomain == last.doc[2]

\* py is a domain of the ProjectModel and is not its primary domain, so
\* its prefix is py
PyNotPrimary(a) ==
    /\ a # NoApp
    /\ \E i \in 1..Len(get_domains(a)) :
          get_domains(a)[i] = << << "py" >>, PyDomain >>

\* the RoleTargetTypeIndex is the one built from the active ProjectModel
FreshTypes ==
    /\ ~_role_target_types.isNone
    /\ _role_target_types.d = BuildRoleTargetTypes(app)

TypesListing(a, r, p) ==
    UNION { { Fmt(p, t.name) :
                t \in { x \in Elems(d[2].object_types) : r \in Elems(x.roles) } } :
            d \in { e \in Elems(get_domains(a)) : e[1] = p } }

\* a role name as a domain declares it, without a prefix
PlainName(r) == Len(r) = 1

\* C14: for every role name r and domain prefix p, roleTargetTypes(r, p)
\* is the set of qualified keys of the object types that list r in the
\* domains of prefix p; it is empty when the ProjectModel is absent or the
\* key is unknown, whatever was queried before.
C14_TypesOfRole ==
    (last.op = "get_role_target_types" /\ PlainName(QueryName))
    => Elems(last.result) = TypesListing(app, QueryName, QueryDomain)

RECURSIVE Flatten(_)
Flatten(seqs) ==
    IF seqs = << >> THEN << >> ELSE Head(seqs) \o Flatten(Tail(seqs))

\* the key roleTargetTypes looks up
RoleKey(name, domain) == Fmt(domain, name)

\* C15: roleTargets is order-stable: as long as the ProjectModel is not
\* replaced the two indices, once built, stay as they are, and every call
\* returns the concatenation of the TargetIndex entries of the target types
\* that roleTargetTypes returns for the same arguments, in that order; so
\* two calls with the same arguments return the same sequence.
C15_RoleTargetsOrderStable ==
    [][ /\ ~(OpStep /\ InitRan(last')) =>
             /\ ~_role_targets.isNone => _role_targets' = _role_targets
             /\ ~_role_target_types.isNone =>
                    _role_target_types' = _role_target_types
        /\ (OpStep /\ last'.op = "get_role_targets") =>
             LET types == DictGet(_role_target_types'.d,
                                  RoleKey(last'.doc[1], last'.doc[2]), << >>)
             IN  /\ ~_role_targets'.isNone /\ ~_role_target_types'.isNone
                 /\ last'.result =
                      Flatten([i \in 1..Len(types) |->
                                 DictGet(_role_targets'.d, types[i], << >>)])
      ]_vars

\* a call whose target types have entries in the TargetIndex under two keys
C15_Witness ==
    /\ last.op = "get_role_targets"
    /\ Len(last.result) = 3
    /\ last.result[1].name = << "join" >>
    /\ last.result[3].name = << "Path" >>


\* the entries a map given as << key, entries >> pairs holds under a key
Under(map, key) == { map[i][2] : i \in { j \in 1..Len(map) : map[j][1] = key } }
Keys(map) == { map[i][1] : i \in 1..Len(map) }

\* the inventory entry the priority order selects for a target type:
\* a set with the entry, empty when the type is omitted
Selected(inv, primary, t) ==
    IF t \in DOMAIN inv THEN { inv[t] }
    ELSE IF primary \o << ":" >> \o t \in DOMAIN inv
    THEN { inv[primary \o << ":" >> \o t] }
    ELSE IF << "std", ":" >> \o t \in DOMAIN inv
    THEN { inv[<< "std", ":" >> \o t] }
    ELSE {}

QueryProject == last.doc[3]

\* C16: targets(project, role, prefix) maps every target type returned by
\* roleTargetTypes to the inventory entry under the bare type key if
\* present, else under primaryDomain:typeKey, else under std:typeKey, else
\* omits the type; an unknown project gives an empty map.
C16_IntersphinxPriority ==
    last.op = "get_intersphinx_targets" =>
        /\ last.raised = "none"
        /\ LET known == IF app = NoApp THEN EmptyDict
                        ELSE Inventory(app.version).inv
               primary == IF app = NoApp THEN << >>
                          ELSE Project(app.version).primary_domain
           IN  IF QueryProject \notin DOMAIN known
               THEN last.result = << >>
               ELSE LET types == DictGet(_role_target_types.d,
                                         RoleKey(QueryName, QueryDomain), << >>)
                    IN  /\ Keys(last.result) \subseteq Elems(types)
                        /\ \A t \in Elems(types) :
                              Under(last.result, t)
                                = Selected(known[QueryProject], primary, t)

IndexQueries ==
    { "get_domains", "get_role_target_types", "get_role_targets",
      "get_intersphinx_projects", "get_intersphinx_targets" }

\* C17: with the ProjectModel absent every index query returns an empty
\* result and none raises.
C17_DegradedQueriesEmpty ==
    (app = NoApp /\ last.op \in IndexQueries) =>
        /\ last.raised = "none"
        /\ last.result = << >>


\* C19: in every state, for every accepted option value and every record
\* the engine logs, initialize, save and build return without an exception
\* reaching the caller.
C19_NoExceptionEscapes ==
    last.op \in { "initialize", "save", "build" } => last.raised = "none"

\* a handler is taken from the queue / the handler in flight ends
Starts == loop.running = << >> /\ loop'.running # << >>
Ends == loop.running # << >> /\ loop'.running = << >>

Extends(q, p) == Len(q) >= Len(p) /\ SubSeq(q, 1, Len(p)) = p

\* diagnostic d is the one extracted from the record: its message, placed
\* at its line
DiagnosticOf(d, record) ==
    /\ d.message = record.msg
    /\ d.range.start.line = RecordLine(record)

\* C21: within one build the per-document mapping only grows: a step other
\* than a build's reset keeps every document with its entries in their
\* order, and an extracted diagnostic is appended at the end of its
\* document's sequence, nothing else changing.
C21_AccumulatorOnlyGrows ==
    [][ ~(OpStep /\ last'.op = "build") =>
          LET old == sphinx_log.diagnostics
              new == sphinx_log'.diagnostics
              extracted == /\ OpStep /\ last'.op = "emit"
                           /\ Has(last'.events, EvDiagnostic)
          IN  /\ \A doc \in DOMAIN old :
                    doc \in DOMAIN new /\ Extends(new[doc], old[doc])
              /\ IF extracted
                 THEN LET doc == RecordUri(last'.run.recs[1])
                          before == DictGet(old, doc, << >>)
                      IN  /\ doc \in DOMAIN new
                          /\ new[doc] = Append(before, Last(new[doc]))
                          /\ DiagnosticOf(Last(new[doc]), last'.run.recs[1])
                          /\ \A other \in DOMAIN new \ { doc } :
                                other \in DOMAIN old /\ new[other] = old[other]
                 ELSE new = old ]_vars

\* a second, different diagnostic was appended behind the first of its
\* document
C21_Witness ==
    /\ last.op = "emit" /\ Has(last.events, EvDiagnostic)
    /\ LET entries == sphinx_log.diagnostics[RecordUri(Emitted)]
       IN  /\ Len(entries) = 2
           /\ DiagnosticOf(entries[2], Emitted)
           /\ entries[1] # entries[2]


\* C22: build() with the ProjectModel absent is a no-op: the engine is not
\* invoked, the accumulator, the stored and the published diagnostics are
\* unchanged, no message is shown and no notification is sent.
C22_BuildWithoutModelIsNoOp ==
    [][ (OpStep /\ last'.op = "build" /\ app = NoApp) =>
          /\ server' = server
          /\ last'.events = << >>
          /\ last'.raised = "none" ]_vars

\* build() ran with the ProjectModel absent while diagnostics of an
\* earlier build were stored
C22_Witness ==
    /\ last.op = "build" /\ app = NoApp
    /\ last.events = << >>
    /\ _diagnostics # EmptyDict

\* a sequence lists no element twice
NoRepeats(seq) == \A i, j \in 1..Len(seq) : seq[i] = seq[j] => i = j

\* C23: for every role name and domain prefix, roleTargetTypes returns each
\* TargetType at most once and roleTargets returns each ReferenceTarget at
\* most once, also when std and the primary domain both define an object
\* type of one name that lists the same role.
C23_NoRepeatedTargets ==
    last.op \in { "get_role_target_types", "get_role_targets" } =>
        NoRepeats(last.result)

====
